---- MODULE Spec2Model ----
(***************************************************************************)
(* String analyzer service: the analysis function, the record store, the   *)
(* filter matcher and the natural-language translator.                     *)
(*                                                                         *)
(* The repository holds three programs that implement the same service:    *)
(*   "service"  src/app/services.py + src/app/storage.py                   *)
(*              (StringAnalyzerService over InMemoryStringStorage)         *)
(*   "app"      src/app/main.py  (FastAPI handlers over a module dict)     *)
(*   "root"     src/main.py      (FastAPI handlers, file-backed dict)      *)
(* A Python str is a sequence of one-character strings; a dict is a        *)
(* function (its insertion order is not modelled).                         *)
(***************************************************************************)
EXTENDS Integers, Sequences, FiniteSets, TLC

VARIABLES
    program,            \* which of the programs is running
    storage_by_value,   \* InMemoryStringStorage._storage_by_value
    storage_by_hash,    \* InMemoryStringStorage._storage_by_hash
    storage,            \* the module-level dict of src/app/main.py
    now,                \* the clock read by datetime.utcnow()
    last,               \* the last call: its operation, argument and outcome
    calls               \* concurrent analyze_and_store_string calls in flight

vars == <<program, storage_by_value, storage_by_hash, storage, now, last, calls>>

(***************************************************************************)
(* Bounds                                                                  *)
(***************************************************************************)
MaxLen == 3         \* longest input text of the analysis specification
MaxClock == 3       \* number of successful creates in one run
MaxClauses == 2     \* clauses in one natural-language query

(***************************************************************************)
(* Characters and str methods                                              *)
(***************************************************************************)
LowerLetters == <<"a","b","c","d","e","f","g","h","i","j","k","l","m",
                  "n","o","p","q","r","s","t","u","v","w","x","y","z">>
UpperLetters == <<"A","B","C","D","E","F","G","H","I","J","K","L","M",
                  "N","O","P","Q","R","S","T","U","V","W","X","Y","Z">>
Digits == <<"0","1","2","3","4","5","6","7","8","9">>

Range(s) == {s[i] : i \in DOMAIN s}

LowerSet == Range(LowerLetters)
UpperSet == Range(UpperLetters)
DigitSet == Range(Digits)
SpaceSet == {" ", "\t", "\n"}

IsSpace(c) == c \in SpaceSet
IsDigit(c) == c \in DigitSet
IsAlpha(c) == c \in LowerSet \cup UpperSet
IsAlnum(c) == IsAlpha(c) \/ IsDigit(c)

\* str.lower() on one character
lower_char(c) ==
    IF c \in UpperSet
    THEN LowerLetters[CHOOSE i \in DOMAIN UpperLetters : UpperLetters[i] = c]
    ELSE c

\* str.lower()
lower(s) == [i \in DOMAIN s |-> lower_char(s[i])]

\* leading whitespace removed, trailing whitespace kept
strip_leading_only(s) ==
    LET keep == {i \in DOMAIN s : ~IsSpace(s[i])}
    IN  IF keep = {} THEN <<>>
        ELSE SubSeq(s, CHOOSE i \in keep : \A j \in keep : i <= j, Len(s))

\* str.strip(): leading and trailing whitespace removed
strip(s) ==
    LET keep == {i \in DOMAIN s : ~IsSpace(s[i])}
    IN  IF keep = {} THEN <<>>
        ELSE LET lo == CHOOSE i \in keep : \A j \in keep : i <= j
                 hi == CHOOSE i \in keep : \A j \in keep : j <= i
             IN  SubSeq(s, lo, hi)

\* len(str.split()): the number of maximal runs of non-whitespace
split_count(s) ==
    Cardinality({i \in DOMAIN s :
                    /\ ~IsSpace(s[i])
                    /\ (i = 1 \/ IsSpace(s[i - 1]))})

\* s[::-1]
reversed(s) == [i \in DOMAIN s |-> s[Len(s) + 1 - i]]

\* re.sub(r'[^a-zA-Z0-9]', '', s)
sub_non_alnum(s) == SelectSeq(s, IsAlnum)

\* sub in s, for str operands
contains(s, sub) ==
    \E i \in 0..(Len(s) - Len(sub)) :
        \A k \in 1..Len(sub) : s[i + k] = sub[k]

\* hashlib.sha256(s.encode()).hexdigest(): a digest, injective on its input
sha256_hexdigest(s) == <<"sha256">> \o s

\* the character frequency loop
character_frequency(s) ==
    [c \in Range(s) |-> Cardinality({i \in DOMAIN s : s[i] = c})]

(***************************************************************************)
(* analyze_string, in its three variants                                   *)
(***************************************************************************)
Properties(cleaned_text, is_palindrome) ==
    [length |-> Len(cleaned_text),
     is_palindrome |-> is_palindrome,
     unique_characters |-> Cardinality(Range(cleaned_text)),
     word_count |-> split_count(cleaned_text),
     sha256_hash |-> sha256_hexdigest(cleaned_text),
     character_frequency_map |-> character_frequency(cleaned_text)]

\* StringAnalyzerService.analyze_string: an empty key is a palindrome
analyze_string(text) ==
    LET cleaned_text == strip(text)
        cleaned_for_palindrome == sub_non_alnum(lower(cleaned_text))
        is_palindrome ==
            IF cleaned_for_palindrome # <<>>
            THEN cleaned_for_palindrome = reversed(cleaned_for_palindrome)
            ELSE TRUE
    IN  Properties(cleaned_text, is_palindrome)

\* src/app/main.py analyze_string: an empty key is not a palindrome
app_analyze_string(text) ==
    LET cleaned_text == strip(text)
        cleaned_for_palindrome == sub_non_alnum(lower(cleaned_text))
        is_palindrome ==
            IF cleaned_for_palindrome # <<>>
            THEN cleaned_for_palindrome = reversed(cleaned_for_palindrome)
            ELSE FALSE
    IN  Properties(cleaned_text, is_palindrome)

\* src/main.py analyze_string: the key is compared with its reverse as it is
root_analyze_string(text) ==
    LET cleaned_text == strip(text)
        cleaned_for_palindrome == sub_non_alnum(lower(cleaned_text))
    IN  Properties(cleaned_text,
                   cleaned_for_palindrome = reversed(cleaned_for_palindrome))

(***************************************************************************)
(* Records and inputs                                                      *)
(***************************************************************************)
\* Python's None
None == [none |-> TRUE]

\* models.StringAnalysis, and the dict src/app/main.py builds
StringAnalysis(id, value, properties, created_at) ==
    [id |-> id, value |-> value, properties |-> properties,
     created_at |-> created_at]

\* the texts submitted to the store
Values ==
    { <<"a">>, <<" ", "a">>, <<"a", "b">>, <<"!">>, <<" ">> }

Put(dict, key, item) ==
    [k \in DOMAIN dict \cup {key} |-> IF k = key THEN item ELSE dict[k]]

Del(dict, key) ==
    [k \in DOMAIN dict \ {key} |-> dict[k]]

Call(op, arg, outcome, result) ==
    [op |-> op, arg |-> arg, outcome |-> outcome, result |-> result]

Idle == [pc |-> "idle", text |-> <<>>, outcome |-> "none"]
Callers == {1, 2}

(***************************************************************************)
(* InMemoryStringStorage                                                   *)
(***************************************************************************)
\* a lookup in the wrong index: a value is never a key of the by-hash dict
get_by_value_in_hash_index(value) ==
    IF value \in DOMAIN storage_by_hash
    THEN storage_by_hash[value] ELSE None

get_by_value(value) ==
    IF value \in DOMAIN storage_by_value
    THEN storage_by_value[value] ELSE None

get_by_hash(hash_id) ==
    IF hash_id \in DOMAIN storage_by_hash
    THEN storage_by_hash[hash_id] ELSE None

get_all == {storage_by_value[v] : v \in DOMAIN storage_by_value}

store(analysis) ==
    /\ storage_by_hash' = Put(storage_by_hash, analysis.id, analysis)
    /\ storage_by_value' = Put(storage_by_value, analysis.value, analysis)

\* TRUE when the call returns, FALSE when `del` raises KeyError
delete_by_value_returns(value) ==
    LET analysis == get_by_value(value)
    IN  analysis # None => analysis.id \in DOMAIN storage_by_hash

delete_by_value(value) ==
    LET analysis == get_by_value(value)
    IN  IF analysis # None
        THEN /\ storage_by_value' = Del(storage_by_value, value)
             /\ IF analysis.id \in DOMAIN storage_by_hash
                THEN storage_by_hash' = Del(storage_by_hash, analysis.id)
                ELSE UNCHANGED storage_by_hash
        ELSE UNCHANGED <<storage_by_value, storage_by_hash>>

(***************************************************************************)
(* StringAnalyzerService: the store operations                             *)
(***************************************************************************)
analyze_and_store_string(text) ==
    /\ program = "service"
    /\ LET existing == get_by_value(text)
       IN  IF existing # None
           THEN /\ last' = Call("create", text, "DuplicateValue", None)
                /\ UNCHANGED <<storage_by_value, storage_by_hash, now>>
           ELSE /\ now < MaxClock
                /\ LET properties == analyze_string(text)
                       analysis == StringAnalysis(properties.sha256_hash, text,
                                                  properties, now)
                   IN  /\ store(analysis)
                       /\ last' = Call("create", text, "ok", analysis)
                /\ now' = now + 1
    /\ UNCHANGED <<program, storage, calls>>

get_string_analysis(text) ==
    /\ program = "service"
    /\ LET analysis == get_by_value(text)
       IN  IF analysis = None
           THEN last' = Call("get", text, "NotFound", None)
           ELSE last' = Call("get", text, "ok", analysis)
    /\ UNCHANGED <<program, storage_by_value, storage_by_hash, storage, now, calls>>

delete_string(text) ==
    /\ program = "service"
    /\ IF get_by_value(text) = None
       THEN /\ last' = Call("delete", text, "NotFound", None)
            /\ UNCHANGED <<storage_by_value, storage_by_hash>>
       ELSE /\ delete_by_value(text)
            /\ last' = Call("delete", text,
                            IF delete_by_value_returns(text)
                            THEN "ok" ELSE "KeyError", None)
    /\ UNCHANGED <<program, storage, now, calls>>

(***************************************************************************)
(* src/app/main.py: the store handlers                                     *)
(***************************************************************************)
app_create_analyze_string(value) ==
    /\ program = "app"
    /\ IF strip(value) = <<>>
       THEN /\ last' = Call("create", value, "InvalidInput", None)
            /\ UNCHANGED <<storage, now>>
       ELSE IF value \in DOMAIN storage
       THEN /\ last' = Call("create", value, "DuplicateValue", None)
            /\ UNCHANGED <<storage, now>>
       ELSE /\ now < MaxClock
            /\ LET properties == app_analyze_string(value)
                   result == StringAnalysis(properties.sha256_hash, value,
                                            properties, now)
               IN  /\ storage' = Put(storage, value, result)
                   /\ last' = Call("create", value, "ok", result)
            /\ now' = now + 1
    /\ UNCHANGED <<program, storage_by_value, storage_by_hash, calls>>

app_get_string(string_value) ==
    /\ program = "app"
    /\ IF string_value \notin DOMAIN storage
       THEN last' = Call("get", string_value, "NotFound", None)
       ELSE last' = Call("get", string_value, "ok", storage[string_value])
    /\ UNCHANGED <<program, storage_by_value, storage_by_hash, storage, now, calls>>

app_delete_string(string_value) ==
    /\ program = "app"
    /\ IF string_value \notin DOMAIN storage
       THEN /\ last' = Call("delete", string_value, "NotFound", None)
            /\ UNCHANGED storage
       ELSE /\ storage' = Del(storage, string_value)
            /\ last' = Call("delete", string_value, "ok", None)
    /\ UNCHANGED <<program, storage_by_value, storage_by_hash, now, calls>>

(***************************************************************************)
(* The store specification: any sequence of calls, one at a time           *)
(***************************************************************************)
EmptyDict == [k \in {} |-> None]

InitStore ==
    /\ storage_by_value = EmptyDict
    /\ storage_by_hash = EmptyDict
    /\ storage = EmptyDict
    /\ now = 0
    /\ last = Call("none", <<>>, "none", None)
    /\ calls = [c \in Callers |-> Idle]

Init ==
    /\ program \in {"service", "app"}
    /\ InitStore

Next ==
    \E v \in Values :
        \/ analyze_and_store_string(v)
        \/ get_string_analysis(v)
        \/ delete_string(v)
        \/ app_create_analyze_string(v)
        \/ app_get_string(v)
        \/ app_delete_string(v)

Spec == Init /\ [][Next]_vars

(***************************************************************************)
(* Claims about the store                                                  *)
(***************************************************************************)
\* the values the running program holds a record for
StoredValues ==
    IF program = "service" THEN DOMAIN storage_by_value ELSE DOMAIN storage

\* the record the running program holds for a stored value
StoredRecord(v) ==
    IF program = "service" THEN storage_by_value[v] ELSE storage[v]

StoreUnchanged == UNCHANGED <<storage_by_value, storage_by_hash, storage>>

\* C1: a create of a value that already has a record fails with
\* DuplicateValue and changes nothing: the record of the first create, with
\* its id, properties and created_at, is still the one stored.
C1_DuplicateCreateRejected ==
    [][\A v \in StoredValues :
          (last'.op = "create" /\ last'.arg = v)
            => /\ last'.outcome = "DuplicateValue"
               /\ StoreUnchanged
               /\ v \in StoredValues'
               /\ StoredRecord(v)' = StoredRecord(v)]_vars

C1_Witness ==
    /\ last.op = "create"
    /\ last.outcome = "DuplicateValue"
    /\ last.arg \in StoredValues
    /\ StoredRecord(last.arg).created_at < now - 1

\* C3: a delete of a stored value succeeds and removes exactly its record,
\* so that a lookup of it finds nothing; a delete or a lookup of a value
\* that is not stored fails with NotFound and changes nothing.
C3_DeleteAndLookup ==
    [][/\ (last'.op = "delete" /\ last'.arg \in StoredValues)
            => /\ last'.outcome = "ok"
               /\ StoredValues' = StoredValues \ {last'.arg}
               /\ \A v \in StoredValues' : StoredRecord(v)' = StoredRecord(v)
       /\ (last'.op \in {"delete", "get"} /\ last'.arg \notin StoredValues)
            => /\ last'.outcome = "NotFound"
               /\ StoreUnchanged]_vars

\* C4: every stored record holds the trimmed text, so its length property
\* is the length of its value, and no two stored values differ only in
\* surrounding whitespace.
C4_StoredValueTrimmed ==
    /\ \A v \in StoredValues :
          /\ StoredRecord(v).value = strip(StoredRecord(v).value)
          /\ StoredRecord(v).properties.length = Len(StoredRecord(v).value)
    /\ \A v, w \in StoredValues : strip(v) = strip(w) => v = w

\* C13: a create of a value that is empty after trimming fails with
\* InvalidInput and leaves the store as it is, and no stored record has
\* properties.length = 0.
C13_EmptyValueRejected ==
    [][/\ (last'.op = "create" /\ strip(last'.arg) = <<>>)
            => /\ last'.outcome = "InvalidInput"
               /\ StoreUnchanged
       /\ \A v \in StoredValues' : StoredRecord(v)'.properties.length # 0]_vars

\* C15: in InMemoryStringStorage the two indexes hold the same records:
\* every stored record is found under its value and under its id, no two
\* stored records share an id, the by-hash index holds no other record, and
\* no delete of a stored value raises.
C15_IndexConsistency ==
    program = "service"
    => /\ \A r \in get_all :
             /\ get_by_value(r.value) = r
             /\ get_by_hash(r.id) = r
       /\ \A r1, r2 \in get_all : r1.id = r2.id => r1 = r2
       /\ \A h \in DOMAIN storage_by_hash : storage_by_hash[h] \in get_all
       /\ last.op = "delete" => last.outcome \in {"ok", "NotFound"}

(***************************************************************************)
(* Concurrent creates on the service: analyze_and_store_string holds no    *)
(* lock, so between its lookup (get_by_value) and its insert (store)       *)
(* another call may run.                                                   *)
(***************************************************************************)
begin_call(c, text) ==
    /\ calls[c].pc = "idle"
    /\ calls' = [calls EXCEPT ![c] = [pc |-> "check", text |-> text,
                                      outcome |-> "none"]]
    /\ UNCHANGED <<program, storage_by_value, storage_by_hash, storage, now, last>>

\* existing = self.storage.get_by_value(text); if existing: raise
check_existing(c) ==
    /\ calls[c].pc = "check"
    /\ LET existing == get_by_value(calls[c].text)
       IN  IF existing # None
           THEN calls' = [calls EXCEPT ![c].pc = "done",
                                       ![c].outcome = "DuplicateValue"]
           ELSE calls' = [calls EXCEPT ![c].pc = "store"]
    /\ UNCHANGED <<program, storage_by_value, storage_by_hash, storage, now, last>>

\* the analysis, the record and self.storage.store(analysis)
store_analysis(c) ==
    /\ calls[c].pc = "store"
    /\ LET text == calls[c].text
           properties == analyze_string(text)
           analysis == StringAnalysis(properties.sha256_hash, text,
                                      properties, now)
       IN  store(analysis)
    /\ now' = now + 1
    /\ calls' = [calls EXCEPT ![c].pc = "done", ![c].outcome = "ok"]
    /\ UNCHANGED <<program, storage, last>>

InitRace ==
    /\ program = "service"
    /\ InitStore

NextRace ==
    \E c \in Callers :
        \/ \E v \in Values : begin_call(c, v)
        \/ check_existing(c)
        \/ store_analysis(c)

SpecRace == InitRace /\ [][NextRace]_vars

\* C2: of two concurrent creates of the same value exactly one succeeds and
\* the other observes "already exists"; both never succeed.
C2_ExactlyOneCreateSucceeds ==
    \A c, d \in Callers :
        (/\ c # d
         /\ calls[c].pc = "done"
         /\ calls[d].pc = "done"
         /\ calls[c].text = calls[d].text)
        => {calls[c].outcome, calls[d].outcome} = {"ok", "DuplicateValue"}

(***************************************************************************)
(* The analysis specification: analyze_string of each program applied to   *)
(* every text of at most MaxLen characters                                 *)
(***************************************************************************)
Alphabet == {"a", "A", "b", "1", " ", "!"}

Texts == UNION {[1..n -> Alphabet] : n \in 0..MaxLen}

call_analyze_string(text) ==
    /\ program = "service"
    /\ last' = Call("analyze", text, "ok", analyze_string(text))
    /\ UNCHANGED <<program, storage_by_value, storage_by_hash, storage, now, calls>>

app_call_analyze_string(text) ==
    /\ program = "app"
    /\ last' = Call("analyze", text, "ok", app_analyze_string(text))
    /\ UNCHANGED <<program, storage_by_value, storage_by_hash, storage, now, calls>>

root_call_analyze_string(text) ==
    /\ program = "root"
    /\ last' = Call("analyze", text, "ok", root_analyze_string(text))
    /\ UNCHANGED <<program, storage_by_value, storage_by_hash, storage, now, calls>>

InitAnalyze ==
    /\ program \in {"service", "app", "root"}
    /\ InitStore

NextAnalyze ==
    \E text \in Texts :
        \/ call_analyze_string(text)
        \/ app_call_analyze_string(text)
        \/ root_call_analyze_string(text)

SpecAnalyze == InitAnalyze /\ [][NextAnalyze]_vars

\* the palindrome key of a text: trimmed, lower-cased, ASCII letters and
\* digits only
PalindromeKey(text) == SelectSeq(lower(strip(text)), IsAlnum)

ReadsSameBackwards(key) ==
    \A i \in DOMAIN key : key[i] = key[Len(key) + 1 - i]

\* C5: analyze_string returns is_palindrome = true exactly when the
\* palindrome key of its input reads the same backwards.
C5_PalindromeRule ==
    last.op = "analyze"
    => (last.result.is_palindrome <=> ReadsSameBackwards(PalindromeKey(last.arg)))

\* C6: for an input whose palindrome key is empty analyze_string returns
\* is_palindrome = true.
C6_EmptyKeyIsPalindrome ==
    (last.op = "analyze" /\ PalindromeKey(last.arg) = <<>>)
    => last.result.is_palindrome = TRUE

\* the subject of a text: the text without the whitespace before its first
\* and after its last character that is not whitespace
RECURSIVE TrimLeft(_)
TrimLeft(s) == IF s # <<>> /\ IsSpace(Head(s)) THEN TrimLeft(Tail(s)) ELSE s

RECURSIVE TrimRight(_)
TrimRight(s) ==
    IF s # <<>> /\ IsSpace(s[Len(s)])
    THEN TrimRight(SubSeq(s, 1, Len(s) - 1)) ELSE s

Subject(text) == TrimRight(TrimLeft(text))

\* the number of maximal runs of characters that are not whitespace
RECURSIVE CountRuns(_, _)
CountRuns(s, in_run) ==
    IF s = <<>> THEN 0
    ELSE IF IsSpace(Head(s)) THEN CountRuns(Tail(s), FALSE)
    ELSE (IF in_run THEN 0 ELSE 1) + CountRuns(Tail(s), TRUE)

\* `padded` is `text` with whitespace added before and after it
IsPaddingOf(padded, text) ==
    \E a \in 1..(Len(padded) + 1) :
        /\ a + Len(text) - 1 <= Len(padded)
        /\ SubSeq(padded, a, a + Len(text) - 1) = text
        /\ \A k \in DOMAIN padded :
              (k < a \/ k > a + Len(text) - 1) => IsSpace(padded[k])

\* C14: analyze_string returns as length the number of characters of its
\* input without leading and trailing whitespace and as word_count the
\* number of maximal non-whitespace runs of it, and the analysis of an
\* input padded with whitespace has the length, word_count,
\* unique_characters and content hash of the analysis of the input.
C14_TrimmedSubject ==
    [][last'.op = "analyze"
         => /\ last'.result.length = Len(Subject(last'.arg))
            /\ last'.result.word_count = CountRuns(Subject(last'.arg), FALSE)
            /\ (last.op = "analyze" /\ IsPaddingOf(last'.arg, last.arg))
                 => /\ last'.result.length = last.result.length
                    /\ last'.result.word_count = last.result.word_count
                    /\ last'.result.unique_characters
                         = last.result.unique_characters
                    /\ last'.result.sha256_hash = last.result.sha256_hash]_vars

C14_Witness ==
    /\ last.op = "analyze"
    /\ Len(last.arg) = MaxLen
    /\ IsSpace(last.arg[1])
    /\ IsSpace(last.arg[Len(last.arg)])
    /\ last.result.length = Len(last.arg) - 2
    /\ last.result.word_count = 1

(***************************************************************************)
(* The filter matcher                                                      *)
(***************************************************************************)
\* a bound check that also rejects a record of exactly the minimum length
matches_filters_min_exclusive(analysis, filters) ==
    LET props == analysis.properties
    IN  IF "is_palindrome" \in DOMAIN filters
           /\ props.is_palindrome # filters["is_palindrome"] THEN FALSE
        ELSE IF "min_length" \in DOMAIN filters
           /\ props.length <= filters["min_length"] THEN FALSE
        ELSE IF "max_length" \in DOMAIN filters
           /\ props.length > filters["max_length"] THEN FALSE
        ELSE IF "word_count" \in DOMAIN filters
           /\ props.word_count # filters["word_count"] THEN FALSE
        ELSE IF "contains_character" \in DOMAIN filters
           /\ ~contains(analysis.value, filters["contains_character"]) THEN FALSE
        ELSE TRUE

\* StringAnalyzerService._matches_filters
matches_filters(analysis, filters) ==
    LET props == analysis.properties
    IN  IF "is_palindrome" \in DOMAIN filters
           /\ props.is_palindrome # filters["is_palindrome"] THEN FALSE
        ELSE IF "min_length" \in DOMAIN filters
           /\ props.length < filters["min_length"] THEN FALSE
        ELSE IF "max_length" \in DOMAIN filters
           /\ props.length > filters["max_length"] THEN FALSE
        ELSE IF "word_count" \in DOMAIN filters
           /\ props.word_count # filters["word_count"] THEN FALSE
        ELSE IF "contains_character" \in DOMAIN filters
           /\ ~contains(analysis.value, filters["contains_character"]) THEN FALSE
        ELSE TRUE

\* StringAnalyzerService.get_strings_with_filters
get_strings_with_filters(filters) ==
    {analysis \in get_all : matches_filters(analysis, filters)}

\* src/app/main.py: the filter loop of get_all_strings and of
\* filter_by_natural_language (a flag cleared by each failing test)
app_filter_loop(filters) ==
    {analysis \in {storage[v] : v \in DOMAIN storage} :
        LET props == analysis.properties
            m1 == ~("is_palindrome" \in DOMAIN filters
                    /\ props.is_palindrome # filters["is_palindrome"])
            m2 == ~("min_length" \in DOMAIN filters
                    /\ props.length < filters["min_length"])
            m3 == ~("max_length" \in DOMAIN filters
                    /\ props.length > filters["max_length"])
            m4 == ~("word_count" \in DOMAIN filters
                    /\ props.word_count # filters["word_count"])
            m5 == ~("contains_character" \in DOMAIN filters
                    /\ ~contains(analysis.value, filters["contains_character"]))
        IN  m1 /\ m2 /\ m3 /\ m4 /\ m5}

\* src/main.py: the filter loop of get_all_strings (None is an absent
\* parameter; the character test runs for a non-empty string only)
root_filter_loop(filters) ==
    {item \in {storage[v] : v \in DOMAIN storage} :
        LET props == item.properties
            m1 == ~("is_palindrome" \in DOMAIN filters
                    /\ props.is_palindrome # filters["is_palindrome"])
            m2 == ~("min_length" \in DOMAIN filters
                    /\ props.length < filters["min_length"])
            m3 == ~("max_length" \in DOMAIN filters
                    /\ props.length > filters["max_length"])
            m4 == ~("word_count" \in DOMAIN filters
                    /\ props.word_count # filters["word_count"])
            m5 == ~("contains_character" \in DOMAIN filters
                    /\ filters["contains_character"] # <<>>
                    /\ ~contains(lower(item.value),
                                 lower(filters["contains_character"])))
        IN  m1 /\ m2 /\ m3 /\ m4 /\ m5}

\* src/app/main.py get_all_strings: the range validation (the other
\* validations reject no filter of FilterSet)
range_is_invalid(filters) ==
    /\ "min_length" \in DOMAIN filters
    /\ "max_length" \in DOMAIN filters
    /\ filters["min_length"] > filters["max_length"]

\* src/main.py get_all_strings: the range validation, skipped when either
\* bound is 0 (falsy)
root_range_is_invalid(filters) ==
    /\ "min_length" \in DOMAIN filters
    /\ "max_length" \in DOMAIN filters
    /\ filters["min_length"] # 0
    /\ filters["max_length"] # 0
    /\ filters["min_length"] > filters["max_length"]

call_get_strings_with_filters(filters) ==
    /\ program = "service"
    /\ last' = Call("list", filters, "ok", get_strings_with_filters(filters))
    /\ UNCHANGED <<program, storage_by_value, storage_by_hash, storage, now, calls>>

app_get_all_strings(filters) ==
    /\ program = "app"
    /\ IF range_is_invalid(filters)
       THEN last' = Call("list", filters, "InvalidFilterRange", {})
       ELSE last' = Call("list", filters, "ok", app_filter_loop(filters))
    /\ UNCHANGED <<program, storage_by_value, storage_by_hash, storage, now, calls>>

root_get_all_strings(filters) ==
    /\ program = "root"
    /\ IF root_range_is_invalid(filters)
       THEN last' = Call("list", filters, "InvalidFilterRange", {})
       ELSE last' = Call("list", filters, "ok", root_filter_loop(filters))
    /\ UNCHANGED <<program, storage_by_value, storage_by_hash, storage, now, calls>>

(***************************************************************************)
(* The filter specification: a store holding some of FilterValues, and     *)
(* every filter of FilterSet applied to it                                 *)
(***************************************************************************)
MaxFilterLen == 2   \* largest min_length / max_length of a filter

FilterValues == << <<"A">>, <<"a", "b">>, <<"a", " ", "b">> >>

FilterChars == { <<"a">>, <<"A">> }

EmptyFilter == [k \in {} |-> 0]

Field(name, domain) == {EmptyFilter} \cup {[k \in {name} |-> x] : x \in domain}

FilterSet ==
    {f1 @@ f2 @@ f3 @@ f4 @@ f5 :
        f1 \in Field("is_palindrome", BOOLEAN),
        f2 \in Field("min_length", 0..MaxFilterLen),
        f3 \in Field("max_length", 0..MaxFilterLen),
        f4 \in Field("word_count", 1..2),
        f5 \in Field("contains_character", FilterChars)}

ProgramAnalysis(text) ==
    CASE program = "service" -> analyze_string(text)
      [] program = "app" -> app_analyze_string(text)
      [] program = "root" -> root_analyze_string(text)

\* the record the running program creates for FilterValues[i]
Created(i) ==
    LET properties == ProgramAnalysis(FilterValues[i])
    IN  StringAnalysis(properties.sha256_hash, FilterValues[i], properties, i)

\* the store after creating FilterValues[i] for i in chosen, in order
Populated(chosen) ==
    LET by_value == [v \in {FilterValues[i] : i \in chosen} |->
                        Created(CHOOSE i \in chosen : FilterValues[i] = v)]
        by_hash == [h \in {Created(i).id : i \in chosen} |->
                        Created(CHOOSE i \in chosen : Created(i).id = h)]
    IN  /\ IF program = "service"
           THEN /\ storage_by_value = by_value
                /\ storage_by_hash = by_hash
                /\ storage = EmptyDict
           ELSE /\ storage_by_value = EmptyDict
                /\ storage_by_hash = EmptyDict
                /\ storage = by_value
        /\ now = Len(FilterValues) + 1
        /\ calls = [c \in Callers |-> Idle]

InitFilter ==
    /\ program \in {"service", "app", "root"}
    /\ \E chosen \in SUBSET DOMAIN FilterValues : Populated(chosen)
    /\ last = Call("none", <<>>, "none", None)

NextFilter ==
    \E filters \in FilterSet :
        \/ call_get_strings_with_filters(filters)
        \/ app_get_all_strings(filters)
        \/ root_get_all_strings(filters)

SpecFilter == InitFilter /\ [][NextFilter]_vars

\* the records of the running program's store
AllRecords == {StoredRecord(v) : v \in StoredValues}

\* every field present in the filter holds for the record
EveryFieldHolds(r, f) ==
    /\ "is_palindrome" \in DOMAIN f => r.properties.is_palindrome = f["is_palindrome"]
    /\ "min_length" \in DOMAIN f => r.properties.length >= f["min_length"]
    /\ "max_length" \in DOMAIN f => r.properties.length <= f["max_length"]
    /\ "word_count" \in DOMAIN f => r.properties.word_count = f["word_count"]
    /\ "contains_character" \in DOMAIN f
          => \E i \in DOMAIN r.value : <<r.value[i]>> = f["contains_character"]

\* the filter without one of its fields
Without(f, k) == [x \in DOMAIN f \ {k} |-> f[x]]

\* what the running program lists for a filter
Listed(f) ==
    IF program = "service" THEN get_strings_with_filters(f)
    ELSE app_filter_loop(f)

\* C7: a listing by the service or by src/app/main.py returns exactly the
\* records for which every present field of the filter holds; the empty
\* filter returns every record, and a filter returns no record that the
\* filter without one of its fields does not return.
C7_FilterConjunction ==
    (program \in {"service", "app"} /\ last.op = "list" /\ last.outcome = "ok")
    => /\ last.result = {r \in AllRecords : EveryFieldHolds(r, last.arg)}
       /\ last.arg = EmptyFilter => last.result = AllRecords
       /\ \A k \in DOMAIN last.arg : last.result \subseteq Listed(Without(last.arg, k))

C7_Witness ==
    /\ program = "service"
    /\ last.op = "list"
    /\ Cardinality(DOMAIN last.arg) = 5
    /\ last.result # {}
    /\ last.result # AllRecords
    /\ \E r \in last.result : r.properties.length = last.arg["min_length"]

\* C8: a filter of contains_character alone matches exactly the records
\* whose lower-cased value holds the lower-cased character.
C8_CaseInsensitiveContainment ==
    (last.op = "list" /\ last.outcome = "ok"
        /\ DOMAIN last.arg = {"contains_character"})
    => last.result =
          {r \in AllRecords :
              contains(lower(r.value), lower(last.arg["contains_character"]))}

(***************************************************************************)
(* The literals of the translator's patterns                               *)
(***************************************************************************)
L_THAN == <<"t","h","a","n">>
L_LONGER == <<"l","o","n","g","e","r">>
L_SHORTER == <<"s","h","o","r","t","e","r">>
L_LENGTH == <<"l","e","n","g","t","h">>
L_CHARACTERS == <<"c","h","a","r","a","c","t","e","r","s">>
L_SINGLE == <<"s","i","n","g","l","e">>
L_ONE == <<"o","n","e">>
L_WORD == <<"w","o","r","d">>
L_COUNT == <<"c","o","u","n","t">>
L_THE == <<"t","h","e">>
L_LETTER == <<"l","e","t","t","e","r">>
L_CONTAIN == <<"c","o","n","t","a","i","n">>
L_ING == <<"i","n","g">>
L_PALINDROMIC == <<"p","a","l","i","n","d","r","o","m","i","c">>
L_PALINDROME == <<"p","a","l","i","n","d","r","o","m","e">>
L_VOWEL == <<"v","o","w","e","l">>

(***************************************************************************)
(* The natural-language translator: the regular expressions               *)
(***************************************************************************)
Min(S) == CHOOSE x \in S : \A y \in S : x <= y

\* the literal lit is at position i of q
LitAt(q, i, lit) ==
    /\ i + Len(lit) - 1 <= Len(q)
    /\ \A k \in 1..Len(lit) : q[i + k - 1] = lit[k]

\* the position after the longest run of characters of a class from i
\* (a greedy \s* or \d*: no later part of these patterns can start with a
\* character of the class, so giving characters back never helps)
RunEnd(q, i, class) ==
    CHOOSE j \in i..(Len(q) + 1) :
        /\ \A k \in i..(j - 1) : q[k] \in class
        /\ j = Len(q) + 1 \/ q[j] \notin class

\* int() of a run of decimal digits
RECURSIVE int(_)
int(ds) ==
    IF ds = <<>> THEN 0
    ELSE int(SubSeq(ds, 1, Len(ds) - 1)) * 10
         + (CHOOSE d \in DOMAIN Digits : Digits[d] = ds[Len(ds)]) - 1

NoMatch == [ok |-> FALSE, group |-> <<>>]
Match(group) == [ok |-> TRUE, group |-> group]

\* keyword\s+than\s+(\d+) at position i
keyword_than_number_at(q, i, keyword) ==
    LET a == i + Len(keyword)
        b == RunEnd(q, a, SpaceSet)
        c == b + 4
        d == RunEnd(q, c, SpaceSet)
        e == RunEnd(q, d, DigitSet)
    IN  IF /\ LitAt(q, i, keyword)
           /\ b > a
           /\ LitAt(q, b, L_THAN)
           /\ d > c
           /\ e > d
        THEN Match(SubSeq(q, d, e - 1)) ELSE NoMatch

\* r'longer\s+than\s+(\d+)'
longer_at(q, i) == keyword_than_number_at(q, i, L_LONGER)

\* r'shorter\s+than\s+(\d+)'
shorter_at(q, i) == keyword_than_number_at(q, i, L_SHORTER)

\* re.search of the longer pattern: the match at the leftmost position
search_longer(q) ==
    LET starts == {i \in 1..(Len(q) + 1) : longer_at(q, i).ok}
    IN  IF starts = {} THEN NoMatch ELSE longer_at(q, Min(starts))

\* re.search of the shorter pattern: the match at the leftmost position
search_shorter(q) ==
    LET starts == {i \in 1..(Len(q) + 1) : shorter_at(q, i).ok}
    IN  IF starts = {} THEN NoMatch ELSE shorter_at(q, Min(starts))

\* r'length\s+(\d+)|(\d+)\s+characters'; the group is group(1) or group(2)
exact_length_at(q, i) ==
    LET a == i + Len(L_LENGTH)
        b == RunEnd(q, a, SpaceSet)
        c == RunEnd(q, b, DigitSet)
        e == RunEnd(q, i, DigitSet)
        f == RunEnd(q, e, SpaceSet)
    IN  IF LitAt(q, i, L_LENGTH) /\ b > a /\ c > b
        THEN Match(SubSeq(q, b, c - 1))
        ELSE IF e > i /\ f > e /\ LitAt(q, f, L_CHARACTERS)
        THEN Match(SubSeq(q, i, e - 1))
        ELSE NoMatch

\* an exact length pattern that gives way to a "longer than" or "shorter than"
search_exact_length_unless_bounded(q) ==
    LET starts == {i \in 1..(Len(q) + 1) : exact_length_at(q, i).ok}
    IN  IF starts = {} \/ search_longer(q).ok \/ search_shorter(q).ok
        THEN NoMatch ELSE exact_length_at(q, Min(starts))

\* re.search of the exact length pattern: the match at the leftmost position
search_exact_length(q) ==
    LET starts == {i \in 1..(Len(q) + 1) : exact_length_at(q, i).ok}
    IN  IF starts = {} THEN NoMatch ELSE exact_length_at(q, Min(starts))

\* first\s+second
two_words_at(q, i, first, second) ==
    LET a == i + Len(first)
        b == RunEnd(q, a, SpaceSet)
    IN  LitAt(q, i, first) /\ b > a /\ LitAt(q, b, second)

\* r'single\s+word|one\s+word|word\s+count\s*[=:]?\s*1'
word_count_at(q, i) ==
    LET a == i + Len(L_WORD)
        b == RunEnd(q, a, SpaceSet)
        c == RunEnd(q, b + Len(L_COUNT), SpaceSet)
        d == RunEnd(q, c + 1, SpaceSet)
    IN  IF \/ two_words_at(q, i, L_SINGLE, L_WORD)
           \/ two_words_at(q, i, L_ONE, L_WORD)
           \/ /\ two_words_at(q, i, L_WORD, L_COUNT)
              /\ \/ LitAt(q, c, <<"1">>)
                 \/ /\ c <= Len(q)
                    /\ q[c] \in {"=", ":"}
                    /\ LitAt(q, d, <<"1">>)
        THEN Match(<<>>) ELSE NoMatch

\* re.search of the word count pattern: the match at the leftmost position
search_word_count(q) ==
    LET starts == {i \in 1..(Len(q) + 1) : word_count_at(q, i).ok}
    IN  IF starts = {} THEN NoMatch ELSE word_count_at(q, Min(starts))

\* the letter at position x, when there is one
letter_at(q, x) ==
    IF x <= Len(q) /\ IsAlpha(q[x]) THEN Match(<<q[x]>>) ELSE NoMatch

\* (?:the\s+)?(?:letter\s+)?([a-zA-Z]) from position p: an optional part
\* is taken first and given up when the rest does not match
optional_the_letter_at(q, p) ==
    LET t == RunEnd(q, p + Len(L_THE), SpaceSet)
        has_the == LitAt(q, p, L_THE) /\ t > p + Len(L_THE)
        tl == RunEnd(q, t + Len(L_LETTER), SpaceSet)
        has_the_letter == has_the /\ LitAt(q, t, L_LETTER) /\ tl > t + Len(L_LETTER)
        l == RunEnd(q, p + Len(L_LETTER), SpaceSet)
        has_letter == LitAt(q, p, L_LETTER) /\ l > p + Len(L_LETTER)
    IN  IF has_the_letter /\ letter_at(q, tl).ok THEN letter_at(q, tl)
        ELSE IF has_the /\ letter_at(q, t).ok THEN letter_at(q, t)
        ELSE IF has_letter /\ letter_at(q, l).ok THEN letter_at(q, l)
        ELSE letter_at(q, p)

\* \s+(?:the\s+)?(?:letter\s+)?([a-zA-Z]) from position a
spaces_then_letter_at(q, a) ==
    LET b == RunEnd(q, a, SpaceSet)
    IN  IF b > a THEN optional_the_letter_at(q, b) ELSE NoMatch

\* r'contain(?:s|ing)?\s+(?:the\s+)?(?:letter\s+)?([a-zA-Z])'
char_at(q, i) ==
    LET a == i + Len(L_CONTAIN)
    IN  IF ~LitAt(q, i, L_CONTAIN) THEN NoMatch
        ELSE IF LitAt(q, a, <<"s">>) /\ spaces_then_letter_at(q, a + 1).ok
        THEN spaces_then_letter_at(q, a + 1)
        ELSE IF LitAt(q, a, L_ING) /\ spaces_then_letter_at(q, a + 3).ok
        THEN spaces_then_letter_at(q, a + 3)
        ELSE spaces_then_letter_at(q, a)

\* re.search of the character containment pattern: the match at the leftmost position
search_char(q) ==
    LET starts == {i \in 1..(Len(q) + 1) : char_at(q, i).ok}
    IN  IF starts = {} THEN NoMatch ELSE char_at(q, Min(starts))

(***************************************************************************)
(* The natural-language translator                                         *)
(***************************************************************************)
\* a strict bound taken as an inclusive one
min_length_longer_than_inclusive(longer_match) == int(longer_match.group)

\* parsed_filters['min_length'] = int(longer_match.group(1)) + 1
min_length_longer_than(longer_match) == int(longer_match.group) + 1

\* parsed_filters['max_length'] = int(shorter_match.group(1)) - 1
max_length_shorter_than(shorter_match) == int(shorter_match.group) - 1

\* StringAnalyzerService.filter_by_natural_language: the parsing of the
\* query into parsed_filters
parse_natural_language(query) ==
    LET query_lower == lower(query)
        longer_match == search_longer(query_lower)
        shorter_match == search_shorter(query_lower)
        exact_length_match == search_exact_length(query_lower)
        char_match == search_char(query_lower)
        palindrome ==
            IF \/ contains(query_lower, L_PALINDROMIC)
               \/ contains(query_lower, L_PALINDROME)
            THEN [k \in {"is_palindrome"} |-> TRUE] ELSE EmptyFilter
        word_count ==
            IF search_word_count(query_lower).ok
            THEN [k \in {"word_count"} |-> 1] ELSE EmptyFilter
        longer ==
            IF longer_match.ok
            THEN [k \in {"min_length"} |-> min_length_longer_than(longer_match)]
            ELSE EmptyFilter
        shorter ==
            IF shorter_match.ok
            THEN [k \in {"max_length"} |-> max_length_shorter_than(shorter_match)]
            ELSE EmptyFilter
        exact ==
            IF exact_length_match.ok
            THEN [k \in {"min_length", "max_length"} |->
                     int(exact_length_match.group)]
            ELSE EmptyFilter
        character ==
            IF char_match.ok
            THEN [k \in {"contains_character"} |-> lower(char_match.group)]
            ELSE IF contains(query_lower, L_VOWEL)
            THEN [k \in {"contains_character"} |-> <<"a">>]
            ELSE EmptyFilter
    IN  exact @@ palindrome @@ word_count @@ longer @@ shorter @@ character

\* src/app/main.py filter_by_natural_language: lines 233-268 are, statement
\* for statement, lines 113-148 of services.py
app_parse_natural_language(query) == parse_natural_language(query)

\* a check that also rejects equal bounds
filters_conflict_on_equal(parsed_filters) ==
    /\ "min_length" \in DOMAIN parsed_filters
    /\ "max_length" \in DOMAIN parsed_filters
    /\ parsed_filters["min_length"] >= parsed_filters["max_length"]

\* the check for conflicting filters
filters_conflict(parsed_filters) ==
    /\ "min_length" \in DOMAIN parsed_filters
    /\ "max_length" \in DOMAIN parsed_filters
    /\ parsed_filters["min_length"] > parsed_filters["max_length"]

Answer(data, parsed_filters) == [data |-> data, parsed_filters |-> parsed_filters]

filter_by_natural_language(query) ==
    /\ program = "service"
    /\ last.op = "request"
    /\ last.arg = query
    /\ LET parsed_filters == parse_natural_language(query)
       IN  IF parsed_filters = EmptyFilter
           THEN last' = Call("translate", query, "UnparsableQuery", None)
           ELSE IF filters_conflict(parsed_filters)
           THEN last' = Call("translate", query, "ConflictingFilters", None)
           ELSE last' = Call("translate", query, "ok",
                             Answer(get_strings_with_filters(parsed_filters),
                                    parsed_filters))
    /\ UNCHANGED <<program, storage_by_value, storage_by_hash, storage, now, calls>>

app_filter_by_natural_language(query) ==
    /\ program = "app"
    /\ last.op = "request"
    /\ last.arg = query
    /\ LET parsed_filters == app_parse_natural_language(query)
       IN  IF parsed_filters = EmptyFilter
           THEN last' = Call("translate", query, "UnparsableQuery", None)
           ELSE IF filters_conflict(parsed_filters)
           THEN last' = Call("translate", query, "ConflictingFilters", None)
           ELSE last' = Call("translate", query, "ok",
                             Answer(app_filter_loop(parsed_filters),
                                    parsed_filters))
    /\ UNCHANGED <<program, storage_by_value, storage_by_hash, storage, now, calls>>

(***************************************************************************)
(* The translator specification: one query, of at most MaxClauses clauses, *)
(* arrives at a populated store and is translated                          *)
(***************************************************************************)
\* the clauses a query is made of, joined by one space
Clauses ==
    { <<"P","a","l","i","n","d","r","o","m","i","c">>,   \* Palindromic
      <<"s","i","n","g","l","e"," ","w","o","r","d">>,   \* single word
      <<"s","t","r","i","n","g","s">>,   \* strings
      <<"l","o","n","g","e","r"," ","t","h","a","n"," ","1","0">>,   \* longer than 10
      <<"l","o","n","g","e","r"," ","t","h","a","n">>,   \* longer than
      <<"s","h","o","r","t","e","r"," ","t","h","a","n"," ","5">>,   \* shorter than 5
      <<"s","h","o","r","t","e","r"," ","t","h","a","n"," ","0">>,   \* shorter than 0
      <<"s","h","o","r","t","e","r"," ","t","h","a","n"," ","1","2">>,   \* shorter than 12
      <<"l","e","n","g","t","h"," ","5">>,   \* length 5
      <<"7"," ","c","h","a","r","a","c","t","e","r","s">>,   \* 7 characters
      <<"c","h","a","r","a","c","t","e","r","s">>,   \* characters
      <<"c","o","n","t","a","i","n","i","n","g"," ","t","h","e"," ","l","e","t","t","e","r"," ","Z">>,   \* containing the letter Z
      <<"c","o","n","t","a","i","n","s"," ","v","o","w","e","l","s">>,   \* contains vowels
      <<"v","o","w","e","l">>,   \* vowel
      <<"c","o","n","t","a","i","n"," ","a","p","p","l","e","s">> } \* contain apples

RECURSIVE Join(_)
Join(cs) ==
    IF cs = <<>> THEN <<>>
    ELSE IF Len(cs) = 1 THEN cs[1]
    ELSE cs[1] \o <<" ">> \o Join(Tail(cs))

ClauseLists == UNION {[1..n -> Clauses] : n \in 0..MaxClauses}

Queries == {Join(cs) : cs \in ClauseLists}

InitTranslate ==
    /\ program \in {"service", "app"}
    /\ Populated(DOMAIN FilterValues)
    /\ \E query \in Queries : last = Call("request", query, "none", None)

NextTranslate ==
    \/ filter_by_natural_language(last.arg)
    \/ app_filter_by_natural_language(last.arg)

SpecTranslate == InitTranslate /\ [][NextTranslate]_vars

(***************************************************************************)
(* Claims about the translator                                             *)
(***************************************************************************)
\* what the running program parses out of a query
Parsed(query) ==
    IF program = "service" THEN parse_natural_language(query)
    ELSE app_parse_natural_language(query)

Q_STRINGS == <<"s","t","r","i","n","g","s">>
Q_LONGER_10 == <<"l","o","n","g","e","r"," ","t","h","a","n"," ","1","0">>
Q_LONGER_10_SHORTER_5 == <<"l","o","n","g","e","r"," ","t","h","a","n"," ","1","0"," ","s","h","o","r","t","e","r"," ","t","h","a","n"," ","5">>

\* C9: a translation fails with UnparsableQuery exactly when no rule set a
\* field, fails with ConflictingFilters exactly when both length bounds are
\* set and min_length > max_length, and otherwise returns the non-empty
\* parsed filter, in which min_length <= max_length when both are present;
\* a failure returns no record and the store is never changed.
C9_TranslatorOutcomes ==
    last.op = "translate"
    => LET parsed == Parsed(last.arg)
           both == {"min_length", "max_length"} \subseteq DOMAIN parsed
       IN  /\ last.outcome \in {"ok", "UnparsableQuery", "ConflictingFilters"}
           /\ last.outcome = "UnparsableQuery" <=> DOMAIN parsed = {}
           /\ last.outcome = "ConflictingFilters"
                <=> (both /\ parsed["min_length"] > parsed["max_length"])
           /\ last.outcome = "ok"
                => /\ last.result.parsed_filters = parsed
                   /\ DOMAIN parsed # {}
                   /\ both => parsed["min_length"] <= parsed["max_length"]
           /\ last.outcome # "ok" => last.result = None
           /\ last.arg = Q_STRINGS => last.outcome = "UnparsableQuery"
           /\ last.arg = Q_LONGER_10_SHORTER_5 => last.outcome = "ConflictingFilters"
           /\ Populated(DOMAIN FilterValues)

C9_Witness ==
    /\ last.op = "translate"
    /\ last.outcome = "ConflictingFilters"
    /\ last.arg # Q_LONGER_10_SHORTER_5

\* the words of a query, read without the patterns of the code
WordEnd(q, i) ==
    CHOOSE j \in i..(Len(q) + 1) :
        /\ \A k \in i..(j - 1) : ~IsSpace(q[k])
        /\ j = Len(q) + 1 \/ IsSpace(q[j])
IsWordStart(q, i) ==
    i \in DOMAIN q /\ ~IsSpace(q[i]) /\ (i = 1 \/ IsSpace(q[i - 1]))
WordAt(q, i) == SubSeq(q, i, WordEnd(q, i) - 1)
NextWord(q, i) == RunEnd(q, WordEnd(q, i), SpaceSet)
IsNumber(w) == w # <<>> /\ \A k \in DOMAIN w : IsDigit(w[k])

RECURSIVE Power10(_)
Power10(n) == IF n = 0 THEN 1 ELSE 10 * Power10(n - 1)

DigitValue(c) == CHOOSE d \in 0..9 : Digits[d + 1] = c

RECURSIVE SumOver(_, _)
SumOver(w, n) ==
    IF n = 0 THEN 0
    ELSE DigitValue(w[n]) * Power10(Len(w) - n) + SumOver(w, n - 1)

NumberValue(w) == SumOver(w, Len(w))

\* the word at i is `keyword`, followed by the word "than" and a number
ThanNumberAt(q, i, keyword) ==
    /\ IsWordStart(q, i)
    /\ WordAt(q, i) = keyword
    /\ NextWord(q, i) <= Len(q)
    /\ WordAt(q, NextWord(q, i)) = L_THAN
    /\ NextWord(q, NextWord(q, i)) <= Len(q)
    /\ IsNumber(WordAt(q, NextWord(q, NextWord(q, i))))

ThanNumberPlaces(q, keyword) == {i \in DOMAIN q : ThanNumberAt(q, i, keyword)}

\* the N of the first "keyword than N" of the query
ThanNumber(q, keyword) ==
    LET i == Min(ThanNumberPlaces(q, keyword))
    IN  NumberValue(WordAt(q, NextWord(q, NextWord(q, i))))

\* rule 5: "length N" or "N characters" is in the query
ExactLengthIn(q) ==
    \E i \in DOMAIN q :
        /\ IsWordStart(q, i)
        /\ NextWord(q, i) <= Len(q)
        /\ \/ WordAt(q, i) = L_LENGTH /\ IsNumber(WordAt(q, NextWord(q, i)))
           \/ IsNumber(WordAt(q, i)) /\ WordAt(q, NextWord(q, i)) = L_CHARACTERS

\* every word of the query is "longer", "than", "strings" or a number
OnlyLongerThan(q) ==
    \A i \in DOMAIN q :
        IsWordStart(q, i)
        => \/ WordAt(q, i) \in {L_LONGER, L_THAN, Q_STRINGS}
           \/ IsNumber(WordAt(q, i))

\* C10: in a returned filter, "longer than N" without rule 5 gives
\* min_length = N + 1 and "shorter than M" without rule 5 gives
\* max_length = M - 1; a query in which only "longer than N" is recognized
\* gives exactly {min_length: N + 1}.
C10_StrictLengthBounds ==
    (last.op = "translate" /\ last.outcome = "ok")
    => LET q == lower(last.arg)
           filter == last.result.parsed_filters
       IN  /\ (ThanNumberPlaces(q, L_LONGER) # {} /\ ~ExactLengthIn(q))
                => /\ "min_length" \in DOMAIN filter
                   /\ filter["min_length"] = ThanNumber(q, L_LONGER) + 1
           /\ (ThanNumberPlaces(q, L_SHORTER) # {} /\ ~ExactLengthIn(q))
                => /\ "max_length" \in DOMAIN filter
                   /\ filter["max_length"] = ThanNumber(q, L_SHORTER) - 1
           /\ (ThanNumberPlaces(q, L_LONGER) # {} /\ OnlyLongerThan(q))
                => filter = [k \in {"min_length"} |-> ThanNumber(q, L_LONGER) + 1]
           /\ last.arg = Q_LONGER_10 => filter = [k \in {"min_length"} |-> 11]

C10_Witness ==
    /\ last.op = "translate"
    /\ last.outcome = "ok"
    /\ ThanNumberPlaces(lower(last.arg), L_LONGER) # {}
    /\ ThanNumberPlaces(lower(last.arg), L_SHORTER) # {}
    /\ ~ExactLengthIn(lower(last.arg))
    /\ last.result.parsed_filters["min_length"] = 11
    /\ last.result.parsed_filters["max_length"] = 11

\* the word at i starts a "length N" or an "N characters"
ExactLengthAt(q, i) ==
    /\ IsWordStart(q, i)
    /\ NextWord(q, i) <= Len(q)
    /\ \/ WordAt(q, i) = L_LENGTH /\ IsNumber(WordAt(q, NextWord(q, i)))
       \/ IsNumber(WordAt(q, i)) /\ WordAt(q, NextWord(q, i)) = L_CHARACTERS

ExactLengthPlaces(q) == {i \in DOMAIN q : ExactLengthAt(q, i)}

\* the N of the first "length N" or "N characters" of the query
ExactLengthNumber(q) ==
    LET i == Min(ExactLengthPlaces(q))
    IN  IF WordAt(q, i) = L_LENGTH
        THEN NumberValue(WordAt(q, NextWord(q, i)))
        ELSE NumberValue(WordAt(q, i))

\* C11: a query in which "length N" or "N characters" is recognized is
\* translated to a filter with min_length = N and max_length = N, whatever
\* "longer than" and "shorter than" patterns the same query holds; such a
\* query is never reported as conflicting.
C11_ExactLengthOverrides ==
    (last.op = "translate" /\ ExactLengthPlaces(lower(last.arg)) # {})
    => /\ last.outcome = "ok"
       /\ "min_length" \in DOMAIN last.result.parsed_filters
       /\ "max_length" \in DOMAIN last.result.parsed_filters
       /\ last.result.parsed_filters["min_length"]
            = ExactLengthNumber(lower(last.arg))
       /\ last.result.parsed_filters["max_length"]
            = ExactLengthNumber(lower(last.arg))

C11_Witness ==
    /\ last.op = "translate"
    /\ ThanNumberPlaces(lower(last.arg), L_LONGER) # {}
    /\ ThanNumber(lower(last.arg), L_LONGER) = 10
    /\ ExactLengthPlaces(lower(last.arg)) # {}
    /\ ExactLengthNumber(lower(last.arg)) = 5
    /\ last.outcome = "ok"
    /\ last.result.parsed_filters["min_length"] = 5
    /\ last.result.parsed_filters["max_length"] = 5

\* the words "contain", "contains" and "containing"
ContainWords == {L_CONTAIN, L_CONTAIN \o <<"s">>, L_CONTAIN \o L_ING}

\* a token of one letter
IsLetterToken(w) == Len(w) = 1 /\ IsAlpha(w[1])

\* the place after the word at j when that word is `word`, else j
SkipWord(q, j, word) == IF WordAt(q, j) = word THEN NextWord(q, j) ELSE j

\* the place of X in "contain(s/ing) [the] [letter] X" starting at i
ContainTarget(q, i) ==
    SkipWord(q, SkipWord(q, NextWord(q, i), L_THE), L_LETTER)

\* rule 6 at i: the word at i is "contain(s/ing)" and X is a one-letter token
ContainLetterAt(q, i) ==
    /\ IsWordStart(q, i)
    /\ WordAt(q, i) \in ContainWords
    /\ IsLetterToken(WordAt(q, ContainTarget(q, i)))

ContainLetterPlaces(q) == {i \in DOMAIN q : ContainLetterAt(q, i)}

\* the X of the first "contain(s/ing) [the] [letter] X" of the query
ContainLetter(q) == WordAt(q, ContainTarget(q, Min(ContainLetterPlaces(q))))

\* C12: in a returned filter contains_character, if present, is one
\* lower-case letter; it is the lower-cased X of "contain(s/ing) [the]
\* [letter] X" when X is a one-letter token; it is 'a' when that pattern is
\* not in the query and "vowel" is; and it is absent when neither is in the
\* query.
C12_ContainmentRule ==
    (last.op = "translate" /\ last.outcome = "ok")
    => LET q == lower(last.arg)
           filter == last.result.parsed_filters
           present == "contains_character" \in DOMAIN filter
       IN  /\ present => /\ Len(filter["contains_character"]) = 1
                          /\ filter["contains_character"][1] \in LowerSet
           /\ ContainLetterPlaces(q) # {}
                => present /\ filter["contains_character"] = lower(ContainLetter(q))
           /\ (ContainLetterPlaces(q) = {} /\ contains(q, L_VOWEL))
                => present /\ filter["contains_character"] = <<"a">>
           /\ (ContainLetterPlaces(q) = {} /\ ~contains(q, L_VOWEL))
                => ~present

\* C16: every filter returned by a translation is a valid StructuredFilter:
\* min_length, max_length and word_count, when present, are non-negative
\* integers, also for "longer than 0" and "shorter than 0".
C16_UnsignedFilterFields ==
    (last.op = "translate" /\ last.outcome = "ok")
    => \A k \in DOMAIN last.result.parsed_filters
                \cap {"min_length", "max_length", "word_count"} :
          last.result.parsed_filters[k] \in Nat

====
